---- MODULE Spec2Model ----
(***************************************************************************)
(* Model of amethyst-bsp (src/src/lib.rs): the import of a BSP world into  *)
(* a prefab, `impl SimpleFormat<Prefab<BspPrefabElement>> for BspFormat`.  *)
(*                                                                         *)
(* The import decodes the bytes into a Bsp, then                           *)
(*   - for every cluster of leaves adds a cluster node under entity 0,     *)
(*     collects the faces of the cluster's leaves in the scratch buffer    *)
(*     `faces`, sorts it by texture name, groups it by texture index and   *)
(*     adds one renderable node per group whose texture exists and should  *)
(*     be drawn;                                                           *)
(*   - does the same for every model, with parentless nodes;               *)
(*   - returns Ok(prefab).                                                 *)
(*                                                                         *)
(* Entity indices are zero based as in the code: entity i of the prefab is *)
(* element i + 1 of the sequence `prefab`.  Face and texture indices are   *)
(* zero based as well: texture t is element t + 1 of bsp.textures.         *)
(***************************************************************************)
EXTENDS Integers, Sequences, FiniteSets, TLC

\* bytes:    the buffer given to import: undecodable, or the encoding of a world
\* bsp:      the decoded world (None before Bsp::read)
\* prefab:   the prefab's entities, in the order they were added
\* faces:    the scratch buffer of face indices both loops reuse
\* clusters: what bsp.leaves.clusters() yields; ci: the next cluster
\* mi:       the next model of bsp.models()
\* pc:       "read", "import" (inside the loops) or "done"
\* result:   what import returned (None while it runs)
\* load:     the last texture resolution the asset loader made of the result
VARIABLES bytes, bsp, prefab, faces, clusters, ci, mi, pc, result, load

vars == <<bytes, bsp, prefab, faces, clusters, ci, mi, pc, result, load>>

(***************************************************************************)
(* Bounds of the enumerated worlds.                                        *)
(***************************************************************************)
MaxTextures == 2

MaxFaces == 3

MaxVerts == 2

\* Texture names; NameRank is their order as strings (Ord of the name).
Names == {"brick", "sky"}

NameRank(n) == IF n = "brick" THEN 1 ELSE 2

\* The layouts of a world: the cluster ids of its leaves, in the order of
\* the leaves, and the number of its models.
Layouts ==
    { [leaves |-> <<>>, models |-> 0],
      [leaves |-> <<>>, models |-> 1],
      [leaves |-> <<0, 7, 0>>, models |-> 0],
      [leaves |-> <<0, 7>>, models |-> 1] }

\* Errors the external texture loader can report.
LoadErrors == {"NotFound", "Corrupt"}

None == [none |-> TRUE]

Some(x) == [some |-> x]

IsSome(o) == o # None

(***************************************************************************)
(* The world (bsp::Bsp) as the import reads it.                            *)
(***************************************************************************)
\* The i-th vertex of the world's vertex data: position, normal and surface
\* texture coordinate, with components of both signs and pairwise different
\* y and z so that a remap of the axes is visible.
SourceVertex(i) ==
    [position         |-> <<i, 2 * i - 3, 5 - i>>,
     normal           |-> <<i - 2, 1 - i, i>>,
     surface_texcoord |-> <<i, 3 - i>>]

\* The sum of the first m entries of a sequence of numbers.
RECURSIVE Sum(_, _)
Sum(fn, m) == IF m = 0 THEN 0 ELSE fn[m] + Sum(fn, m - 1)

\* The faces lo..hi-1 (zero based), as a sequence of face indices.
Range(lo, hi) == [k \in 1..(hi - lo) |-> lo + k - 1]

\* Owner j's faces when the face array is laid out owner by owner and
\* cut[j] is the end of owner j's part.
Part(cut, j) == Range(IF j = 1 THEN 0 ELSE cut[j - 1], cut[j])

\* A world: a texture table, a face array (face f has texture index ft[f]
\* and the next fn[f] vertices of the vertex data), leaves (cluster id lc[j]
\* and faces) and nm models (faces).  The face array is laid out leaves
\* first, then models.
World(tex, ft, fn, lc, nm, cut) ==
    [textures |-> tex,
     faces    |-> [f \in 1..Len(ft) |->
                     [texture  |-> ft[f],
                      vertices |-> [k \in 1..fn[f] |-> SourceVertex(Sum(fn, f - 1) + k)]]],
     leaves   |-> [j \in 1..Len(lc) |-> [cluster |-> lc[j], faces |-> Part(cut, j)]],
     models   |-> [j \in 1..nm |-> Part(cut, Len(lc) + j)]]

\* The texture tables.
TextureTables ==
    UNION { [1..nt -> [name : Names, should_draw : BOOLEAN]] : nt \in 0..MaxTextures }

\* The texture indices face f may have with nt textures: every index of the
\* table and one index outside it, negative or just past the end.
TextureIndices(f, nt) == 0..(nt - 1) \cup {IF f % 2 = 1 THEN -1 ELSE nt}

\* The vertex counts of nf faces that share at most MaxVerts vertices.
VertexCounts(nf) == { fn \in [1..nf -> 0..MaxVerts] : Sum(fn, nf) <= MaxVerts }

\* The ways to cut nf faces into k consecutive parts, none left over.
Cuts(nf, k) ==
    IF k = 0 THEN (IF nf = 0 THEN {<<>>} ELSE {})
    ELSE { c \in [1..k -> 0..nf] : c[k] = nf /\ \A j \in 1..(k - 1) : c[j] <= c[j + 1] }

(***************************************************************************)
(* Accessors of the bsp crate, as the import uses them.                    *)
(***************************************************************************)
\* `tex as usize`: a negative index wraps to the top of the usize range.
\* usize is 64 bits wide; the wrap is modelled at 2^31 - 1, TLC's largest
\* integer, which is as far above any texture count.
AsUsize(t) == IF t < 0 THEN 2147483647 + t ELSE t

\* bsp.texture(i): the texture table entry i, or None past its end.
Texture(b, i) ==
    IF i < Len(b.textures) THEN Some(b.textures[i + 1]) ELSE None

\* face.texture(): the face's texture through its index.
FaceTexture(b, f) == Texture(b, AsUsize(b.faces[f + 1].texture))

\* bsp.leaves.clusters(): the iteration over (id, member leaves).  The bsp
\* crate is a dependency; by its interface every cluster id of the leaves is
\* yielded once, with all the leaves that have it, here in the order in
\* which the ids first appear.
RECURSIVE Clusters(_)
Clusters(leaves) ==
    IF leaves = <<>> THEN <<>>
    ELSE LET id   == Head(leaves).cluster
             mine == SelectSeq(leaves, LAMBDA l : l.cluster = id)
             rest == SelectSeq(leaves, LAMBDA l : l.cluster # id)
         IN <<[id |-> id, leaves |-> mine]>> \o Clusters(rest)

\* flat_map: the concatenation of a sequence of sequences.
RECURSIVE Flatten(_)
Flatten(ss) == IF ss = <<>> THEN <<>> ELSE Head(ss) \o Flatten(Tail(ss))

\* VecClear without its effect: the buffer keeps what it held.
VecClearKeeps(v) == v

\* faces.clear()
VecClear(v) == <<>>

\* faces.extend(items)
VecExtend(v, items) == v \o items

\* cluster.into_iter().flat_map(|leaf| Handle::new(&bsp, leaf).faces())
LeafFaces(cluster) == Flatten([j \in 1..Len(cluster.leaves) |-> cluster.leaves[j].faces])

(***************************************************************************)
(* Sorting and grouping of the scratch buffer.                             *)
(***************************************************************************)
\* The sort key face.texture().map(|t| t.name): None sorts before Some,
\* names in their string order.
SortKey(b, f) ==
    LET t == FaceTexture(b, f) IN IF IsSome(t) THEN NameRank(t.some.name) ELSE 0

\* The permutations of 1..n.
Perms(n) == { p \in [1..n -> 1..n] : \A i, j \in 1..n : i # j => p[i] # p[j] }

\* faces.sort_unstable_by_key(..): every arrangement of the buffer that is
\* ordered by the key; the order of faces of equal key is not specified.
SortUnstableByKey(b, fs) ==
    { [i \in 1..Len(fs) |-> fs[p[i]]] : p \in
        { q \in Perms(Len(fs)) :
            \A i \in 1..(Len(fs) - 1) : SortKey(b, fs[q[i]]) <= SortKey(b, fs[q[i + 1]]) } }

\* faces.iter().group_by(|face| face.texture): the maximal runs of
\* consecutive faces of equal texture index, each with its key.
RECURSIVE GroupBy(_, _)
GroupBy(b, fs) ==
    IF fs = <<>> THEN <<>>
    ELSE LET key == b.faces[Head(fs) + 1].texture
             n   == CHOOSE m \in 1..Len(fs) :
                        /\ \A i \in 1..m : b.faces[fs[i] + 1].texture = key
                        /\ m = Len(fs) \/ b.faces[fs[m + 1] + 1].texture # key
         IN <<[tex |-> key, faces |-> SubSeq(fs, 1, n)]>>
            \o GroupBy(b, SubSeq(fs, n + 1, Len(fs)))

(***************************************************************************)
(* Vertices and nodes.                                                     *)
(***************************************************************************)
\* Transcode without the remap of the axes: the vertex as it is in the world.
TranscodeUnmapped(vert) ==
    [position  |-> vert.position,
     normal    |-> vert.normal,
     tex_coord |-> vert.surface_texcoord]

\* The PosNormTex built from a source vertex: (x, y, z) -> (x, z, -y) for
\* position and normal, the texture coordinate as it is.
Transcode(vert) ==
    [position  |-> <<vert.position[1], vert.position[3], -vert.position[2]>>,
     normal    |-> <<vert.normal[1], vert.normal[3], -vert.normal[2]>>,
     tex_coord |-> vert.surface_texcoord]

\* faces.flat_map(|face| face.vertices().map(..)).collect(): the transcoded
\* vertices of the group's faces, face after face.
Verts(b, fs) ==
    Flatten([i \in 1..Len(fs) |->
               [k \in 1..Len(b.faces[fs[i] + 1].vertices) |->
                  Transcode(b.faces[fs[i] + 1].vertices[k])]])

\* History of Verts: for every collected vertex, the face and the position
\* in the face it was read from.
VertSources(b, fs) ==
    Flatten([i \in 1..Len(fs) |->
               [k \in 1..Len(b.faces[fs[i] + 1].vertices) |-> <<fs[i], k>>]])

\* MISSING_TEXTURE: the decoded bundled placeholder image.
MISSING_TEXTURE == [image |-> "missing.png"]

\* MISSING_TEXTURE_FUNCTION handing the loader's error on.
PassErrorOn(err) == [ok |-> FALSE, error |-> err]

\* MISSING_TEXTURE_FUNCTION: |_| Ok(MISSING_TEXTURE.clone())
MISSING_TEXTURE_FUNCTION(err) == [ok |-> TRUE, data |-> MISSING_TEXTURE]

\* AssetPrefab::FileOrElse(name, DetectTextureFormat, srgb, MISSING_TEXTURE_FUNCTION)
FileOrElse(name) ==
    [variant |-> "FileOrElse", name |-> name, or_else |-> "MISSING_TEXTURE_FUNCTION"]

\* Prefab::new(): the prefab with its root, entity 0.
PrefabNew == <<[parent |-> None, data |-> None, of |-> None]>>

\* prefab.add(parent, data): appends the entity; its index is the old length.
\* `of` is history: what the node was built from.
PrefabAdd(p, parent, data, of) == Append(p, [parent |-> parent, data |-> data, of |-> of])

\* BspPrefabElement { cluster: Some(Cluster { id }), ..Default::default() }
ClusterElement(id) == [cluster |-> Some([id |-> id]), texture |-> None, mesh |-> None]

\* BspPrefabElement { texture: Some(FileOrElse(..)), mesh: Some(verts), .. }
MeshElement(name, verts) ==
    [cluster |-> None, texture |-> Some(FileOrElse(name)), mesh |-> Some(verts)]

\* EmitGroups without the test of should_draw.
RECURSIVE EmitGroupsAnyFlag(_, _, _, _, _)
EmitGroupsAnyFlag(b, p, groups, parent, owner) ==
    IF groups = <<>> THEN p
    ELSE LET g   == Head(groups)
             tex == Texture(b, AsUsize(g.tex))
             q   == IF ~IsSome(tex) THEN p
                    ELSE PrefabAdd(p, parent,
                                   Some(MeshElement(tex.some.name, Verts(b, g.faces))),
                                   Some([owner |-> owner, tex |-> g.tex, faces |-> g.faces,
                                         src |-> VertSources(b, g.faces)]))
         IN EmitGroupsAnyFlag(b, q, Tail(groups), parent, owner)

\* The loop over the groups of the sorted buffer: a group whose texture
\* index has no texture, or whose texture should not be drawn, is skipped;
\* every other group adds one node under `parent`.
RECURSIVE EmitGroups(_, _, _, _, _)
EmitGroups(b, p, groups, parent, owner) ==
    IF groups = <<>> THEN p
    ELSE LET g   == Head(groups)
             tex == Texture(b, AsUsize(g.tex))
             q   == IF ~IsSome(tex) THEN p
                    ELSE IF ~tex.some.should_draw THEN p
                    ELSE PrefabAdd(p, parent,
                                   Some(MeshElement(tex.some.name, Verts(b, g.faces))),
                                   Some([owner |-> owner, tex |-> g.tex, faces |-> g.faces,
                                         src |-> VertSources(b, g.faces)]))
         IN EmitGroups(b, q, Tail(groups), parent, owner)

(***************************************************************************)
(* The import, step by step.                                               *)
(***************************************************************************)
Init ==
    /\ \/ bytes = [valid |-> FALSE]
       \/ \E tex \in TextureTables, nf \in 0..MaxFaces, lay \in Layouts :
            \E ft \in { t \in [1..nf -> -1..Len(tex)] :
                          \A f \in 1..nf : t[f] \in TextureIndices(f, Len(tex)) },
               fn \in VertexCounts(nf),
               cut \in Cuts(nf, Len(lay.leaves) + lay.models) :
              bytes = [valid |-> TRUE,
                       world |-> World(tex, ft, fn, lay.leaves, lay.models, cut)]
    /\ bsp = None
    /\ prefab = <<>>
    /\ faces = <<>>
    /\ clusters = <<>>
    /\ ci = 1
    /\ mi = 1
    /\ pc = "read"
    /\ result = None
    /\ load = None

\* Bsp::read fails: the error is returned by `?`.
ReadErr ==
    /\ pc = "read"
    /\ ~bytes.valid
    /\ result' = [ok |-> FALSE, error |-> "decode"]
    /\ pc' = "done"
    /\ UNCHANGED <<bytes, bsp, prefab, faces, clusters, ci, mi, load>>

\* Bsp::read succeeds; Prefab::new(), vec![] and the cluster iterator.
ReadOk ==
    /\ pc = "read"
    /\ bytes.valid
    /\ bsp' = bytes.world
    /\ prefab' = PrefabNew
    /\ faces' = <<>>
    /\ clusters' = Clusters(bytes.world.leaves)
    /\ pc' = "import"
    /\ UNCHANGED <<bytes, ci, mi, result, load>>

\* ClusterIter adding the cluster node only when a group of the cluster is
\* emitted.
ClusterIterSkipsEmpty ==
    /\ pc = "import"
    /\ ci <= Len(clusters)
    /\ LET cluster    == clusters[ci]
           cluster_id == Len(prefab)
           withNode   == PrefabAdd(prefab, Some(0), Some(ClusterElement(cluster.id)),
                                   Some([owner |-> <<"cluster", ci>>]))
       IN \E sorted \in SortUnstableByKey(bsp, VecExtend(VecClear(faces), LeafFaces(cluster))) :
            /\ faces' = sorted
            /\ LET q == EmitGroups(bsp, withNode, GroupBy(bsp, sorted),
                                   Some(cluster_id), <<"cluster", ci>>)
               IN prefab' = IF q = withNode THEN prefab ELSE q
    /\ ci' = ci + 1
    /\ UNCHANGED <<bytes, bsp, clusters, mi, pc, result, load>>

\* ClusterIter parenting the renderable nodes to the cluster's id instead of
\* the index of the cluster's node.
ClusterIterParentsById ==
    /\ pc = "import"
    /\ ci <= Len(clusters)
    /\ LET cluster    == clusters[ci]
           withNode   == PrefabAdd(prefab, Some(0), Some(ClusterElement(cluster.id)),
                                   Some([owner |-> <<"cluster", ci>>]))
       IN \E sorted \in SortUnstableByKey(bsp, VecExtend(VecClear(faces), LeafFaces(cluster))) :
            /\ faces' = sorted
            /\ prefab' = EmitGroups(bsp, withNode, GroupBy(bsp, sorted),
                                    Some(cluster.id), <<"cluster", ci>>)
    /\ ci' = ci + 1
    /\ UNCHANGED <<bytes, bsp, clusters, mi, pc, result, load>>

\* One iteration of `for (id, cluster) in &bsp.leaves.clusters()`.
ClusterIter ==
    /\ pc = "import"
    /\ ci <= Len(clusters)
    /\ LET cluster    == clusters[ci]
           cluster_id == Len(prefab)
           withNode   == PrefabAdd(prefab, Some(0), Some(ClusterElement(cluster.id)),
                                   Some([owner |-> <<"cluster", ci>>]))
       IN \E sorted \in SortUnstableByKey(bsp, VecExtend(VecClear(faces), LeafFaces(cluster))) :
            /\ faces' = sorted
            /\ prefab' = EmitGroups(bsp, withNode, GroupBy(bsp, sorted),
                                    Some(cluster_id), <<"cluster", ci>>)
    /\ ci' = ci + 1
    /\ UNCHANGED <<bytes, bsp, clusters, mi, pc, result, load>>

\* One iteration of `for model in bsp.models()`, which follows the loop
\* over the clusters.
ModelIter ==
    /\ pc = "import"
    /\ ci > Len(clusters)
    /\ mi <= Len(bsp.models)
    /\ \E sorted \in SortUnstableByKey(bsp, VecExtend(VecClear(faces), bsp.models[mi])) :
            /\ faces' = sorted
            /\ prefab' = EmitGroups(bsp, prefab, GroupBy(bsp, sorted), None, <<"model", mi>>)
    /\ mi' = mi + 1
    /\ UNCHANGED <<bytes, bsp, clusters, ci, pc, result, load>>

\* Return failing when the prefab has no node with a mesh.
ReturnFailsWithoutMesh ==
    /\ pc = "import"
    /\ ci > Len(clusters)
    /\ mi > Len(bsp.models)
    /\ result' = IF \E n \in DOMAIN prefab :
                      IsSome(prefab[n].data) /\ IsSome(prefab[n].data.some.mesh)
                 THEN [ok |-> TRUE, prefab |-> prefab]
                 ELSE [ok |-> FALSE, error |-> "empty"]
    /\ pc' = "done"
    /\ UNCHANGED <<bytes, bsp, prefab, faces, clusters, ci, mi, load>>

\* Ok(prefab)
Return ==
    /\ pc = "import"
    /\ ci > Len(clusters)
    /\ mi > Len(bsp.models)
    /\ result' = [ok |-> TRUE, prefab |-> prefab]
    /\ pc' = "done"
    /\ UNCHANGED <<bytes, bsp, prefab, faces, clusters, ci, mi, load>>

\* The asset loader resolves the texture reference of entity n of the
\* returned prefab: the file's data if the file loads, else whatever the
\* reference's or_else function makes of the error.
LoadTexture ==
    /\ pc = "done"
    /\ result.ok
    /\ load = None
    /\ \E n \in 1..Len(prefab) :
         /\ IsSome(prefab[n].data)
         /\ IsSome(prefab[n].data.some.texture)
         /\ \/ load' = Some([entity |-> n - 1,
                             outcome |-> [ok |-> TRUE,
                                          data |-> [image |-> prefab[n].data.some.texture.some.name]]])
            \/ \E e \in LoadErrors :
                 load' = Some([entity |-> n - 1, error |-> e,
                               outcome |-> MISSING_TEXTURE_FUNCTION(e)])
    /\ UNCHANGED <<bytes, bsp, prefab, faces, clusters, ci, mi, pc, result>>

Next ==
    \/ ReadErr
    \/ ReadOk
    \/ ClusterIter
    \/ ModelIter
    \/ Return
    \/ LoadTexture

Spec == Init /\ [][Next]_vars

(***************************************************************************)
(* Vocabulary of the properties.                                           *)
(***************************************************************************)
\* The import got past the decoding and built (part of) the prefab.
Decoded == pc \in {"import", "done"} /\ bytes.valid

\* The import returned Ok(prefab).
Imported == pc = "done" /\ bytes.valid

Entities == 1..Len(prefab)

\* A renderable node carries a mesh; a cluster node carries a Cluster.
IsRenderable(n) == IsSome(prefab[n].data) /\ IsSome(prefab[n].data.some.mesh)

IsClusterNode(n) == IsSome(prefab[n].data) /\ IsSome(prefab[n].data.some.cluster)

Renderables == { n \in Entities : IsRenderable(n) }

ClusterNodes == { n \in Entities : IsClusterNode(n) }

Mesh(n) == prefab[n].data.some.mesh.some

\* What the loops iterate over: the clusters, then the models.
Owners ==
    { <<"cluster", c>> : c \in 1..Len(clusters) } \cup
    { <<"model", m>> : m \in 1..Len(bsp.models) }

\* The faces an owner's iteration collects, in the order of collection.
Collected(o) == IF o[1] = "cluster" THEN LeafFaces(clusters[o[2]]) ELSE bsp.models[o[2]]

\* The owner's iteration has run.
Processed(o) == IF o[1] = "cluster" THEN o[2] < ci ELSE o[2] < mi

\* The renderable nodes built in an owner's iteration, in entity order.
NodesOf(o) == { n \in Renderables : prefab[n].of.some.owner = o }

\* A face contributes geometry: its texture index has a texture, and the
\* texture should be drawn.
Drawable(f) ==
    /\ bsp.faces[f + 1].texture >= 0
    /\ bsp.faces[f + 1].texture < Len(bsp.textures)
    /\ bsp.textures[bsp.faces[f + 1].texture + 1].should_draw

\* The axis remap of the specification: (x, y, z) becomes (x, z, -y).
Remapped(v) ==
    [position  |-> <<v.position[1], v.position[3], 0 - v.position[2]>>,
     normal    |-> <<v.normal[1], v.normal[3], 0 - v.normal[2]>>,
     tex_coord |-> v.surface_texcoord]

\* The number of elements of a sequence that equal x.
Count(seq, x) == Cardinality({ i \in DOMAIN seq : seq[i] = x })

Elems(seq) == { seq[i] : i \in DOMAIN seq }

\* The position of face f in a sequence of faces that holds it once.
Pos(seq, f) == CHOOSE i \in DOMAIN seq : seq[i] = f

(***************************************************************************)
(* The properties.                                                         *)
(***************************************************************************)

\* C1: no renderable node holds a vertex of a face whose texture index is
\* out of range or whose texture has should_draw false.
C1_FilteredFacesLeaveNoGeometry ==
    Decoded =>
      \A n \in Renderables :
        /\ Len(prefab[n].of.some.src) = Len(Mesh(n))
        /\ \A k \in DOMAIN prefab[n].of.some.src : Drawable(prefab[n].of.some.src[k][1])

\* A finished import of a world in which a face with vertices has no
\* texture, another has a texture not to be drawn, and a third is drawn.
C1_Witness ==
    /\ Imported
    /\ Renderables # {}
    /\ \E o \in Owners : \E f \in Elems(Collected(o)) :
         /\ bsp.faces[f + 1].vertices # <<>>
         /\ ~IsSome(FaceTexture(bsp, f))
    /\ \E o \in Owners : \E f \in Elems(Collected(o)) :
         /\ bsp.faces[f + 1].vertices # <<>>
         /\ IsSome(FaceTexture(bsp, f))
         /\ ~FaceTexture(bsp, f).some.should_draw

\* C2: the faces of one owner (cluster or model) that have the same texture
\* end up in one batch: an owner never has two renderable nodes for the same
\* texture index, and has one for every drawable texture of its faces.
C2_OneNodePerTexture ==
    Decoded =>
      \A o \in Owners : Processed(o) =>
        /\ \A n, m \in NodesOf(o) :
             prefab[n].of.some.tex = prefab[m].of.some.tex => n = m
        /\ \A f \in Elems(Collected(o)) : Drawable(f) =>
             \E n \in NodesOf(o) : prefab[n].of.some.tex = bsp.faces[f + 1].texture

\* C3: every renderable node has a non-empty vertex sequence.
C3_NoEmptyMesh ==
    Decoded => \A n \in Renderables : Mesh(n) # <<>>

\* C4: once the cluster loop is over, every cluster id of the leaves has
\* exactly one cluster node, and every cluster node has a cluster id of the
\* leaves, also when the cluster has no renderable child.
C4_OneNodePerCluster ==
    (Decoded /\ ci > Len(clusters)) =>
      /\ \A j \in DOMAIN bsp.leaves :
           Cardinality({ n \in ClusterNodes :
                           prefab[n].data.some.cluster.some.id = bsp.leaves[j].cluster }) = 1
      /\ \A n \in ClusterNodes :
           /\ \E j \in DOMAIN bsp.leaves :
                prefab[n].data.some.cluster.some.id = bsp.leaves[j].cluster
           /\ ~IsSome(prefab[n].data.some.mesh)

\* A finished import of a world whose leaves of cluster 0 are separated by a
\* leaf of cluster 7, where one cluster has renderable children and the
\* other has none.
C4_Witness ==
    /\ Imported
    /\ Len(bsp.leaves) = 3
    /\ NodesOf(<<"cluster", 1>>) = {}
    /\ NodesOf(<<"cluster", 2>>) # {}
    /\ Collected(<<"cluster", 1>>) # <<>>

\* C5: every vertex of every mesh is the remap of the source vertex it was
\* read from: position (x, y, z) to (x, z, -y), normal alike, texture
\* coordinate unchanged; in cluster batches and in model batches.
C5_AxisRemap ==
    Decoded =>
      \A n \in Renderables :
        /\ Len(prefab[n].of.some.src) = Len(Mesh(n))
        /\ \A k \in DOMAIN Mesh(n) :
             LET s == prefab[n].of.some.src[k]
             IN Mesh(n)[k] = Remapped(bsp.faces[s[1] + 1].vertices[s[2]])

\* A finished import with a vertex in a cluster batch and one in a model
\* batch.
C5_Witness ==
    /\ Imported
    /\ \E n \in Renderables : prefab[n].of.some.owner[1] = "cluster" /\ Mesh(n) # <<>>
    /\ \E n \in Renderables : prefab[n].of.some.owner[1] = "model" /\ Mesh(n) # <<>>

\* C6: every node with a mesh has a texture reference of the variant
\* FileOrElse, named after the world texture of the faces of its batch and
\* falling back to MISSING_TEXTURE_FUNCTION; whatever error the loader
\* reports, the reference resolves to Ok with the placeholder's data.
C6_FallbackTexture ==
    /\ Decoded =>
         \A n \in Renderables :
           /\ IsSome(prefab[n].data.some.texture)
           /\ prefab[n].data.some.texture.some.variant = "FileOrElse"
           /\ prefab[n].data.some.texture.some.or_else = "MISSING_TEXTURE_FUNCTION"
           /\ \A i \in DOMAIN prefab[n].of.some.faces :
                LET f == prefab[n].of.some.faces[i]
                IN /\ Drawable(f)
                   /\ prefab[n].data.some.texture.some.name
                        = bsp.textures[bsp.faces[f + 1].texture + 1].name
    /\ IsSome(load) =>
         /\ load.some.outcome.ok
         /\ "error" \in DOMAIN load.some => load.some.outcome.data = [image |-> "missing.png"]

\* The loader failed on the texture of a renderable node.
C6_Witness ==
    /\ IsSome(load)
    /\ "error" \in DOMAIN load.some
    /\ IsRenderable(load.some.entity + 1)

\* C7: the import ends in one of two ways.  If the bytes do not decode, it
\* returns the error and no prefab was built.  If they decode, it returns Ok
\* with the prefab after all clusters and all models were processed; nothing
\* in the world stops it on the way (the decoding can be taken, every
\* iteration has a sorted buffer to go on with, and after the loops the
\* return can be taken) or turns the result into an error.
C7_TwoOutcomes ==
    /\ (pc = "done" /\ ~bytes.valid) =>
         ~result.ok /\ prefab = <<>> /\ "prefab" \notin DOMAIN result
    /\ (pc = "done" /\ bytes.valid) =>
         /\ result.ok
         /\ result.prefab = prefab
         /\ prefab[1] = [parent |-> None, data |-> None, of |-> None]
         /\ ci = Len(clusters) + 1
         /\ mi = Len(bsp.models) + 1
         /\ Cardinality(ClusterNodes) = Len(clusters)
    /\ pc = "read" => ENABLED (ReadErr \/ ReadOk)
    /\ (pc = "import" /\ ci <= Len(clusters)) =>
         SortUnstableByKey(bsp, VecExtend(VecClear(faces), LeafFaces(clusters[ci]))) # {}
    /\ (pc = "import" /\ ci > Len(clusters) /\ mi <= Len(bsp.models)) =>
         SortUnstableByKey(bsp, VecExtend(VecClear(faces), bsp.models[mi])) # {}
    /\ (pc = "import" /\ ci > Len(clusters) /\ mi > Len(bsp.models)) => ENABLED Return
    /\ (pc # "done" /\ pc # "read") => bytes.valid

\* A finished import of a world with a face without texture, a face with a
\* texture not to be drawn, a cluster without faces and an empty model.
C7_Witness ==
    /\ Imported
    /\ result.ok
    /\ \E f \in DOMAIN bsp.faces : ~IsSome(FaceTexture(bsp, f - 1))
    /\ \E f \in DOMAIN bsp.faces :
         IsSome(FaceTexture(bsp, f - 1)) /\ ~FaceTexture(bsp, f - 1).some.should_draw
    /\ \E c \in DOMAIN clusters : LeafFaces(clusters[c]) = <<>>
    /\ \E m \in DOMAIN bsp.models : bsp.models[m] = <<>>

\* C8: in every batch the vertices of a face are contiguous and in the
\* face's order, and the faces are in the order in which they were
\* collected from the leaves or the model.
C8_StableOrder ==
    Decoded =>
      \A n \in Renderables :
        LET src == prefab[n].of.some.src
            col == Collected(prefab[n].of.some.owner)
        IN \A i, j \in DOMAIN src : i < j =>
             IF src[i][1] = src[j][1]
             THEN src[i][2] < src[j][2] /\ \A k \in i..j : src[k][1] = src[i][1]
             ELSE Pos(col, src[i][1]) < Pos(col, src[j][1])

\* C9: a cluster node has parent entity 0 and comes after it; a renderable
\* node of a cluster has as parent the node of that cluster, which comes
\* before it; a renderable node of a model has no parent; without clusters
\* there are no cluster nodes.
C9_ParentLinks ==
    Decoded =>
      /\ \A n \in ClusterNodes : n > 1 /\ prefab[n].parent = Some(0)
      /\ \A n \in Renderables :
           LET o == prefab[n].of.some.owner
           IN IF o[1] = "model"
              THEN prefab[n].parent = None
              ELSE /\ IsSome(prefab[n].parent)
                   /\ prefab[n].parent.some + 1 < n
                   /\ prefab[n].parent.some + 1 \in ClusterNodes
                   /\ prefab[prefab[n].parent.some + 1].of.some.owner = o
                   /\ prefab[prefab[n].parent.some + 1].data.some.cluster.some.id
                        = clusters[o[2]].id
      /\ clusters = <<>> => ClusterNodes = {}
      /\ Cardinality(ClusterNodes) = ci - 1

\* A finished import with renderable nodes under two cluster nodes and a
\* renderable node of a model.
C9_Witness ==
    /\ Imported
    /\ NodesOf(<<"cluster", 1>>) # {}
    /\ NodesOf(<<"cluster", 2>>) # {}
    /\ \E n \in Renderables : prefab[n].of.some.owner[1] = "model"

\* The meshes of the owner's nodes, one after the other.
RECURSIVE MeshesOf(_, _)
MeshesOf(o, n) ==
    IF n = 0 THEN <<>>
    ELSE MeshesOf(o, n - 1) \o (IF n \in NodesOf(o) THEN Mesh(n) ELSE <<>>)

\* The remapped vertices of the drawable faces among fs, face after face.
RECURSIVE Expected(_)
Expected(fs) ==
    IF fs = <<>> THEN <<>>
    ELSE (IF Drawable(Head(fs))
          THEN [k \in DOMAIN bsp.faces[Head(fs) + 1].vertices |->
                  Remapped(bsp.faces[Head(fs) + 1].vertices[k])]
          ELSE <<>>) \o Expected(Tail(fs))

\* C10: for every processed cluster and model, the vertices of its
\* renderable nodes are, as a multiset, the remapped vertices of the
\* drawable faces it collected: each once, and none of another owner.
C10_Conservation ==
    Decoded =>
      \A o \in Owners : Processed(o) =>
        LET got  == MeshesOf(o, Len(prefab))
            want == Expected(Collected(o))
        IN /\ Len(got) = Len(want)
           /\ \A v \in Elems(got) \cup Elems(want) : Count(got, v) = Count(want, v)
           /\ \A n \in NodesOf(o) :
                IF o[1] = "model" THEN prefab[n].parent = None
                ELSE prefab[prefab[n].parent.some + 1].of.some.owner = o

\* A finished import in which a cluster and, after it, a model put vertices
\* of their own drawable faces through the scratch buffer.
C10_Witness ==
    /\ Imported
    /\ \E o \in Owners : o[1] = "cluster" /\ Expected(Collected(o)) # <<>>
    /\ \E o \in Owners : o[1] = "model" /\ Expected(Collected(o)) # <<>>

====
